---- MODULE Spec2Model ----
(***************************************************************************)
(* Room coordination protocol of findMeServer: RoomMember / Room           *)
(* (src/app/features/room/roomMember.mjs, lines 257-702) on top of a       *)
(* Firestore store (transactions, batched writes, snapshot listeners).     *)
(*                                                                         *)
(* Every await of the JavaScript code that talks to the store is one step  *)
(* of the model; the code between two awaits runs to completion and is     *)
(* part of the step that precedes it.                                      *)
(***************************************************************************)
EXTENDS Integers, Sequences, FiniteSets, Bags, TLC

\* ---------------------------------------------------------------- bounds
NumSessions == 2
NumCodes == 1
MaxCalls == 4
MaxFanoutCalls == 3
MaxTxnAttempts == 2
MaxNegotiateCalls == 6
MaxRoomUpdateCalls == 5
MaxValidateCalls == 2
MaxModifyClock == 5
MaxDeleteCalls == 5

\* ------------------------------------------------------ program constants
MaxAttempts == 10
DefaultBatchSize == 100
MinBatchSize == 1
MaxBatchSize == 500
BatchSizeError == "Batch size must be between 1 and 500"
RoomNotFound == "Room does not exist"
CreateFailed == "Failed to create room after 10 attempts"
\* The errors the runtime and the store raise: a property of undefined is
\* read; a transaction is given up after its last attempt.
TypeError == "TypeError"
NotInRoom == "Not in a room"
UnknownType == "Unknown message type"
\* The close reason of a connection the client has closed.
PeerClosed == "closed by peer"
Aborted == "ABORTED"
\* The error of the store when a document to update does not exist.
DocNotFound == "NOT_FOUND"
\* The errors of the precondition checks.
UserInRoom == "User is already in a room"
RoomIdRequired == "Room ID is required"
LatitudeRequired == "Latitude is required"
LongitudeRequired == "Longitude is required"
LatitudeInvalid == "Latitude is invalid"
LongitudeInvalid == "Longitude is invalid"
InvalidGeoPoint == "Invalid GeoPoint provided"
MaxLatitude == 90
MaxLongitude == 180

Sessions == 1..NumSessions
Codes == 1..NumCodes
Undefined == 0

\* The JavaScript values an argument can have: undefined, null, a string, NaN
\* and the numbers. typeof NaN is 'number', and every comparison with NaN is
\* false.
JsUndefined == [type |-> "undefined", v |-> 0]
JsNull == [type |-> "null", v |-> 0]
JsString == [type |-> "string", v |-> 0]
JsNaN == [type |-> "NaN", v |-> 0]
Num(n) == [type |-> "number", v |-> n]
TypeOf(x) == IF x.type \in {"number", "NaN"} THEN "number"
             ELSE IF x.type = "null" THEN "object" ELSE x.type
Less(x, n) == x.type = "number" /\ x.v < n
Greater(x, n) == x.type = "number" /\ x.v > n
\* JSON.stringify of a value in a message: NaN is written as null.
Json(x) == IF x.type = "NaN" THEN JsNull ELSE x

Zero == <<Num(0), Num(0)>>
Points == {Zero, <<Num(1), Num(1)>>}
LeaveKinds == {"leave", "hb"}
Kinds == {"create", "join", "update", "negotiate"} \cup LeaveKinds
NegotiateOps == {"propose", "accept", "revoke", "clear"}

VARIABLES
    info,       \* store: room code -> info record, for the info records that exist
    members,    \* store: <<room code, member id>> -> member record, for the Member docs that exist
    locations,  \* store: set of Location docs [room, member, lat, lng, time]
    clock,      \* store: server time (FieldValue.serverTimestamp())
    generated,  \* the document ids generated so far by collection.doc(): id -> session whose call generated it
    rm,         \* session -> fields of its RoomMember object (heartbeatTimeout: the timer
                \* it holds is pending) and the number of its pending heartbeat timers
    ws,         \* session -> its connection: messages sent, terminated, the error its
                \* message handler has caught, the reason it was closed with
    listeners,  \* onSnapshot registrations, in order of registration
    task,       \* session -> kind of call -> the call in flight (its position and locals)
    calls       \* number of calls started

vars == <<info, members, locations, clock, generated, rm, ws, listeners, task, calls>>

\* The id the next collection.doc() generates: ids are unique.
nextId == Len(generated) + 1

\* The connection of session s is open: messages arrive on it.
Open(s) == ~ws[s].terminated /\ ws[s].closed = ""

\* ------------------------------------------------------------- messages
Ping == [type |-> "ping"]
Created(c, m) == [type |-> "created", roomId |-> c, userId |-> m]
Left(m) == [type |-> "left", userId |-> m]
LocationMsg(m, l) ==
    [type |-> "location", userId |-> m, lat |-> Json(l.lat), lng |-> Json(l.lng), time |-> l.time]
MemberUpdate(m, data) == [type |-> "memberUpdate", userId |-> m, joinedAt |-> data.joinedAt, lost |-> data.lost]
RoomUpdate(c, proposals) == [type |-> "roomUpdate", roomId |-> c, proposals |-> proposals]

Send(w, s, msgs) == [w EXCEPT ![s].sent = @ (+) msgs]

\* ---------------------------------------------------------------- store
MembersOf(c) == {p[2] : p \in {q \in DOMAIN members : q[1] = c}}
LocationsOf(c, m) == {l \in locations : l.room = c /\ l.member = m}
InfoFields(t) == [createdAt |-> t, proposals |-> <<>>]
MemberFields(t) == [joinedAt |-> t, lost |-> FALSE]
LocationDoc(c, m, pt, t) == [room |-> c, member |-> m, lat |-> pt[1], lng |-> pt[2], time |-> t]

\* f with the pair k |-> v added or replaced
Put(f, k, v) == [x \in DOMAIN f \cup {k} |-> IF x = k THEN v ELSE f[x]]
\* f without the keys in ks
Drop(f, ks) == [x \in DOMAIN f \ ks |-> f[x]]

\* -------------------------------------------------------------- sessions
NewRoomMember ==
    [room |-> Undefined, id |-> Undefined, roomUnsubscribe |-> Undefined,
     locationUnsubscribes |-> <<>>, otherMembersData |-> <<>>,
     heartbeatTimeout |-> TRUE, timers |-> 1]

\* The timer whose handle the field heartbeatTimeout of r holds is pending no
\* more: it has fired, or clearTimeout(this.heartbeatTimeout) has cancelled
\* it. `timers` counts the pending heartbeat timers of the session.
TimerOff(r) ==
    [r EXCEPT !.heartbeatTimeout = FALSE,
              !.timers = IF r.heartbeatTimeout THEN @ - 1 ELSE @]

IdleTask ==
    [pc |-> "idle", room |-> Undefined, mid |-> Undefined, pt |-> Zero,
     success |-> FALSE, attempts |-> 0, tries |-> 0, reads |-> {},
     stale |-> FALSE, del |-> FALSE, snap |-> {}, err |-> "",
     op |-> "", arg |-> Undefined, kept |-> FALSE]

\* A call of leaveRoom that throws: the caller of an explicit leave gets the
\* rejection; the heartbeat callback ends with it, before ws.terminate().
Thrown(t, k) == IF k = "hb" THEN [IdleTask EXCEPT !.pc = "h_failed"] ELSE IdleTask
\* The call of kind k has ended and its promise is rejected with error e.
Rejected(k, e) == [Thrown(IdleTask, k) EXCEPT !.err = e]

\* A commit that writes info record c aborts every other transaction that has read it.
Staled(t, c, s0, k0) ==
    [s \in Sessions |-> [k \in Kinds |->
        IF <<s, k>> # <<s0, k0>> /\ c \in t[s][k].reads
        THEN [t[s][k] EXCEPT !.stale = TRUE]
        ELSE t[s][k]]]

\* ------------------------------------------------------------- listeners
\* A registration holds the snapshot delivered last (seen) and the time of its
\* first snapshot (since, 0 before that snapshot).
EmptyView == [info |-> <<>>, members |-> <<>>, top |-> 0]
RosterListener(s, c) ==
    [owner |-> s, kind |-> "roster", room |-> c, peer |-> Undefined,
     active |-> TRUE, since |-> 0, seen |-> EmptyView]
LocationListener(s, c, m) ==
    [owner |-> s, kind |-> "location", room |-> c, peer |-> m,
     active |-> TRUE, since |-> 0, seen |-> EmptyView]
Cancelled(l) == [l EXCEPT !.active = FALSE, !.since = 0, !.seen = EmptyView]
\* ls with the listeners whose handle is in hs unsubscribed
Unsubscribe(ls, hs) ==
    [h \in DOMAIN ls |-> IF h \in hs THEN Cancelled(ls[h]) ELSE ls[h]]

Init ==
    /\ info = <<>>
    /\ members = <<>>
    /\ locations = {}
    /\ clock = 1
    /\ generated = <<>>
    /\ rm = [s \in Sessions |-> NewRoomMember]
    /\ ws = [s \in Sessions |-> [sent |-> SetToBag({Ping}), terminated |-> FALSE,
                                 caught |-> "", closed |-> ""]]
    /\ listeners = <<>>
    /\ task = [s \in Sessions |-> [k \in Kinds |-> IdleTask]]
    /\ calls = 0

\* ----------------------------------------------------------- validation
\* The checks of lat and lng at the head of createRoom, joinRoom and
\* updateLocation, in their order: the message of the error thrown, "" when
\* none is.
CoordinateError(lat, lng) ==
    IF lat.type \in {"undefined", "null"} THEN LatitudeRequired
    ELSE IF lng.type \in {"undefined", "null"} THEN LongitudeRequired
    ELSE IF TypeOf(lat) # "number" \/ Less(lat, -MaxLatitude) \/ Greater(lat, MaxLatitude)
         THEN LatitudeInvalid
    ELSE IF TypeOf(lng) # "number" \/ Less(lng, -MaxLongitude) \/ Greater(lng, MaxLongitude)
         THEN LongitudeInvalid
    ELSE ""

\* geoPoint instanceof Firestore.GeoPoint: an object made of two numbers.
IsGeoPoint(g) == g[1].type = "number" /\ g[2].type = "number"

\* Mutation of RejectCall: the error is reported to the client.
RejectCall_ReportsError(s, k, e, pt) ==
    /\ calls < MaxCalls
    /\ Open(s)
    /\ task[s][k].pc = "idle"
    /\ task' = [task EXCEPT ![s][k] = [IdleTask EXCEPT !.err = e, !.pt = pt]]
    /\ ws' = Send(ws, s, SetToBag({[type |-> "error"]}))
    /\ calls' = calls + 1
    /\ UNCHANGED <<info, members, locations, clock, generated, rm, listeners>>

\* A call of kind k with the arguments pt throws error e in its precondition
\* checks, before its first write: the call is rejected. The rejected call
\* keeps its arguments.
RejectCall(s, k, e, pt) ==
    /\ calls < MaxCalls
    /\ Open(s)
    /\ task[s][k].pc = "idle"
    /\ task' = [task EXCEPT ![s][k] = [IdleTask EXCEPT !.err = e, !.pt = pt]]
    /\ calls' = calls + 1
    /\ UNCHANGED <<info, members, locations, clock, generated, rm, ws, listeners>>

\* ------------------------------------------------- createRoom / Room.create
\* createRoom up to the first await inside Room.create's transaction.
CreateRoomCall(s, pt) ==
    /\ calls < MaxCalls
    /\ Open(s)
    /\ task[s]["create"].pc = "idle"
    /\ rm[s].room = Undefined
    /\ task' = [task EXCEPT ![s]["create"] =
                    [IdleTask EXCEPT !.pc = "c_txn", !.pt = pt, !.tries = 1]]
    /\ calls' = calls + 1
    /\ UNCHANGED <<info, members, locations, clock, generated, rm, ws, listeners>>

\* createRoom(lat, lng) with any arguments.
CreateRoomArgs(s, lat, lng) ==
    LET e == IF rm[s].room # Undefined THEN UserInRoom ELSE CoordinateError(lat, lng) IN
    IF e = "" THEN CreateRoomCall(s, <<lat, lng>>)
    ELSE RejectCall(s, "create", e, <<lat, lng>>)

\* Mutation of CreateProbe: the loop goes on while no free code is found.
CreateProbe_Unbounded(s) ==
    LET t == task[s]["create"] IN
    /\ t.pc = "c_txn"
    /\ ~t.success
    /\ t.attempts < MaxAttempts + 2
    /\ \E c \in Codes :
        LET free == c \notin DOMAIN info IN
        /\ task' = [task EXCEPT ![s]["create"] =
                [t EXCEPT !.room = c, !.reads = @ \cup {c}, !.success = free,
                          !.attempts = @ + 1,
                          !.mid = IF free THEN nextId ELSE Undefined,
                          !.pc = IF free THEN "c_commit" ELSE "c_txn"]]
        /\ generated' = IF free THEN Append(generated, s) ELSE generated
    /\ UNCHANGED <<info, members, locations, clock, rm, ws, listeners, calls>>

\* One turn of the while loop: draw a code, transaction.get its info record.
\* When the loop ends with success the callback buffers its writes.
CreateProbe(s) ==
    LET t == task[s]["create"] IN
    /\ t.pc = "c_txn"
    /\ ~t.success
    /\ t.attempts < MaxAttempts
    /\ \E c \in Codes :
        LET free == c \notin DOMAIN info IN
        /\ task' = [task EXCEPT ![s]["create"] =
                [t EXCEPT !.room = c, !.reads = @ \cup {c}, !.success = free,
                          !.attempts = @ + 1,
                          !.mid = IF free THEN nextId ELSE Undefined,
                          !.pc = IF free THEN "c_commit" ELSE "c_txn"]]
        /\ generated' = IF free THEN Append(generated, s) ELSE generated
    /\ UNCHANGED <<info, members, locations, clock, rm, ws, listeners, calls>>

\* The loop ends without a free code: the callback throws, createRoom rejects.
CreateExhausted(s) ==
    LET t == task[s]["create"] IN
    /\ t.pc = "c_txn"
    /\ ~t.success
    /\ t.attempts >= MaxAttempts
    /\ task' = [task EXCEPT ![s]["create"] = Rejected("create", CreateFailed)]
    /\ UNCHANGED <<info, members, locations, clock, generated, rm, ws, listeners, calls>>

\* The commit is rejected because a record read by the transaction was written.
\* runTransaction runs the callback again: success and attempts are variables
\* of Room.create, outside the callback, so the loop is skipped, nothing is
\* read, and the writes are buffered for the code drawn before.
CreateConflict(s) ==
    LET t == task[s]["create"] IN
    /\ t.pc = "c_commit"
    /\ t.stale
    /\ IF t.tries < MaxTxnAttempts
       THEN /\ task' = [task EXCEPT ![s]["create"] =
                    [t EXCEPT !.tries = @ + 1, !.reads = {}, !.stale = FALSE,
                              !.mid = nextId]]
            /\ generated' = Append(generated, s)
       ELSE /\ task' = [task EXCEPT ![s]["create"] = Rejected("create", Aborted)]
            /\ generated' = generated
    /\ UNCHANGED <<info, members, locations, clock, rm, ws, listeners, calls>>

\* The commit: info record, Member and first Location in one atomic write.
CreateCommit(s) ==
    LET t == task[s]["create"] IN
    /\ t.pc = "c_commit"
    /\ ~t.stale
    /\ info' = Put(info, t.room, InfoFields(clock))
    /\ members' = Put(members, <<t.room, t.mid>>, MemberFields(clock))
    /\ locations' = locations \cup {LocationDoc(t.room, t.mid, t.pt, clock)}
    /\ clock' = clock + 1
    /\ task' = [Staled(task, t.room, s, "create") EXCEPT ![s]["create"] =
                    [t EXCEPT !.pc = "c_bind", !.reads = {}]]
    /\ UNCHANGED <<generated, rm, ws, listeners, calls>>

\* Room.create has returned: createRoom binds the session, subscribes, sends `created`.
CreateBind(s) ==
    LET t == task[s]["create"] IN
    /\ t.pc = "c_bind"
    /\ listeners' = Append(listeners, RosterListener(s, t.room))
    /\ rm' = [rm EXCEPT ![s].room = t.room, ![s].id = t.mid,
                        ![s].roomUnsubscribe = Len(listeners) + 1]
    /\ ws' = Send(ws, s, SetToBag({Created(t.room, t.mid)}))
    /\ task' = [task EXCEPT ![s]["create"] = IdleTask]
    /\ UNCHANGED <<info, members, locations, clock, generated, calls>>

\* ------------------------------------------------------------- joinRoom
\* joinRoom up to the await of Room.get.
JoinRoomCall(s, c, pt) ==
    /\ calls < MaxCalls
    /\ Open(s)
    /\ task[s]["join"].pc = "idle"
    /\ rm[s].room = Undefined
    /\ task' = [task EXCEPT ![s]["join"] =
                    [IdleTask EXCEPT !.pc = "j_get", !.room = c, !.pt = pt, !.tries = 1]]
    /\ calls' = calls + 1
    /\ UNCHANGED <<info, members, locations, clock, generated, rm, ws, listeners>>

\* joinRoom(roomId, lat, lng) with any arguments; Undefined is no room id.
JoinRoomArgs(s, roomId, lat, lng) ==
    LET e == IF rm[s].room # Undefined THEN UserInRoom
             ELSE IF roomId = Undefined THEN RoomIdRequired
             ELSE CoordinateError(lat, lng)
    IN
    IF e = "" THEN JoinRoomCall(s, roomId, <<lat, lng>>)
    ELSE RejectCall(s, "join", e, <<lat, lng>>)

\* Mutation of JoinGet: Room.get without the test of infoDoc.exists.
JoinGet_NoExistsTest(s) ==
    LET t == task[s]["join"] IN
    /\ t.pc = "j_get"
    /\ task' = [task EXCEPT ![s]["join"] = [t EXCEPT !.pc = "j_txn"]]
    /\ UNCHANGED <<info, members, locations, clock, generated, rm, ws, listeners, calls>>

\* Room.get: a plain read of the info record; throws when it does not exist.
JoinGet(s) ==
    LET t == task[s]["join"] IN
    /\ t.pc = "j_get"
    /\ task' = [task EXCEPT ![s]["join"] =
                    IF t.room \in DOMAIN info THEN [t EXCEPT !.pc = "j_txn"]
                    ELSE Rejected("join", RoomNotFound)]
    /\ UNCHANGED <<info, members, locations, clock, generated, rm, ws, listeners, calls>>

\* The transaction callback: transaction.get of the info record, then the
\* Member and Location writes are buffered and this.id is assigned.
JoinTxnGet(s) ==
    LET t == task[s]["join"] IN
    /\ t.pc = "j_txn"
    /\ IF t.room \in DOMAIN info
       THEN /\ task' = [task EXCEPT ![s]["join"] =
                    [t EXCEPT !.pc = "j_commit", !.mid = nextId, !.reads = {t.room},
                              !.stale = FALSE]]
            /\ rm' = [rm EXCEPT ![s].id = nextId]
            /\ generated' = Append(generated, s)
       ELSE /\ task' = [task EXCEPT ![s]["join"] = Rejected("join", RoomNotFound)]
            /\ UNCHANGED <<rm, generated>>
    /\ UNCHANGED <<info, members, locations, clock, ws, listeners, calls>>

JoinConflict(s) ==
    LET t == task[s]["join"] IN
    /\ t.pc = "j_commit"
    /\ t.stale
    /\ task' = [task EXCEPT ![s]["join"] =
                    IF t.tries < MaxTxnAttempts
                    THEN [t EXCEPT !.pc = "j_txn", !.tries = @ + 1, !.reads = {},
                                   !.stale = FALSE]
                    ELSE Rejected("join", Aborted)]
    /\ UNCHANGED <<info, members, locations, clock, generated, rm, ws, listeners, calls>>

JoinCommit(s) ==
    LET t == task[s]["join"] IN
    /\ t.pc = "j_commit"
    /\ ~t.stale
    /\ members' = Put(members, <<t.room, t.mid>>, MemberFields(clock))
    /\ locations' = locations \cup {LocationDoc(t.room, t.mid, t.pt, clock)}
    /\ clock' = clock + 1
    /\ task' = [task EXCEPT ![s]["join"] = [t EXCEPT !.pc = "j_bind", !.reads = {}]]
    /\ UNCHANGED <<info, generated, rm, ws, listeners, calls>>

\* The transaction has resolved: joinRoom binds the room and subscribes.
JoinBind(s) ==
    LET t == task[s]["join"] IN
    /\ t.pc = "j_bind"
    /\ listeners' = Append(listeners, RosterListener(s, t.room))
    /\ rm' = [rm EXCEPT ![s].room = t.room, ![s].roomUnsubscribe = Len(listeners) + 1]
    /\ task' = [task EXCEPT ![s]["join"] = IdleTask]
    /\ UNCHANGED <<info, members, locations, clock, generated, ws, calls>>

\* ------------------------------------------------------------ leaveRoom
\* leaveRoom on a bound session up to the first await: the roster listener
\* and the location listeners are unsubscribed, the transaction is started.
LeaveRoomBegin(s, k) ==
    /\ task[s][k].pc = "idle"
    /\ rm[s].room # Undefined
    /\ rm[s].id # Undefined
    /\ listeners' = Unsubscribe(listeners,
            {rm[s].roomUnsubscribe} \cup
            {rm[s].locationUnsubscribes[m] : m \in DOMAIN rm[s].locationUnsubscribes})
    /\ rm' = [rm EXCEPT ![s] = [(IF k = "hb" THEN TimerOff(@) ELSE @)
                                    EXCEPT !.roomUnsubscribe = Undefined]]
    /\ task' = [task EXCEPT ![s][k] = [IdleTask EXCEPT !.pc = "l_txn", !.tries = 1]]
    /\ UNCHANGED <<info, members, locations, clock, generated>>

LeaveRoomCall(s) ==
    /\ calls < MaxCalls
    /\ Open(s)
    /\ ws[s].caught = ""
    /\ LeaveRoomBegin(s, "leave")
    /\ calls' = calls + 1
    /\ UNCHANGED ws

\* The 'message' handler of the server gets a message whose handling throws
\* before any await (unparseable, no type, unknown type): the catch block
\* awaits leaveRoom, which returns at once on an unbound session; then
\* clearTimeout and ws.close(1011, error.message).
MessageError(s, e) ==
    /\ calls < MaxCalls
    /\ Open(s)
    /\ ws[s].caught = ""
    /\ calls' = calls + 1
    /\ IF rm[s].room # Undefined /\ rm[s].id # Undefined
       THEN /\ LeaveRoomBegin(s, "leave")
            /\ ws' = [ws EXCEPT ![s].caught = e]
       ELSE /\ ws' = [ws EXCEPT ![s].closed = e]
            /\ rm' = [rm EXCEPT ![s] = TimerOff(@)]
            /\ UNCHANGED <<info, members, locations, clock, generated, listeners, task>>

\* The client closes the connection: no handler is registered for 'close'.
ConnectionClose(s) ==
    /\ Open(s)
    /\ ws' = [ws EXCEPT ![s].closed = PeerClosed]
    /\ UNCHANGED <<info, members, locations, clock, generated, rm, listeners, task, calls>>

\* transaction.get(this.room.infoRef)
LeaveTxnGet(s, k) ==
    LET t == task[s][k] IN
    /\ t.pc = "l_txn"
    /\ task' = [task EXCEPT ![s][k] =
                    IF rm[s].room # Undefined /\ rm[s].room \in DOMAIN info
                    THEN [t EXCEPT !.pc = "l_locs", !.reads = {rm[s].room}, !.stale = FALSE]
                    ELSE Rejected(k, IF rm[s].room = Undefined THEN TypeError ELSE RoomNotFound)]
    /\ UNCHANGED <<info, members, locations, clock, generated, rm, ws, listeners, calls>>

\* #deleteLocations: this.locationRef.limit(batchSize).get()
LeaveLocGet(s, k) ==
    LET t == task[s][k]
        all == LocationsOf(rm[s].room, rm[s].id)
    IN
    /\ t.pc = "l_locs"
    /\ IF rm[s].room = Undefined \/ rm[s].id = Undefined
       THEN task' = [task EXCEPT ![s][k] = Rejected(k, NotInRoom)]
       ELSE \E snap \in SUBSET all :
                /\ Cardinality(snap) = IF Cardinality(all) < DefaultBatchSize
                                       THEN Cardinality(all) ELSE DefaultBatchSize
                /\ task' = [task EXCEPT ![s][k] =
                        [t EXCEPT !.snap = snap,
                                  !.pc = IF snap = {} THEN "l_count" ELSE "l_batch"]]
    /\ UNCHANGED <<info, members, locations, clock, generated, rm, ws, listeners, calls>>

\* #deleteLocations: batch.commit() of the deletes, outside the transaction.
LeaveBatch(s, k) ==
    LET t == task[s][k] IN
    /\ t.pc = "l_batch"
    /\ locations' = locations \ t.snap
    /\ task' = [task EXCEPT ![s][k] =
                    [t EXCEPT !.snap = {},
                              !.pc = IF Cardinality(t.snap) < DefaultBatchSize
                                     THEN "l_count" ELSE "l_locs"]]
    /\ UNCHANGED <<info, members, clock, generated, rm, ws, listeners, calls>>

\* this.room.collection.count().get(): a plain aggregate read, counting the
\* info record and the Member records; then the deletes are buffered.
CollectionCount(c) == (IF c \in DOMAIN info THEN 1 ELSE 0) + Cardinality(MembersOf(c))

LeaveCount(s, k) ==
    LET t == task[s][k] IN
    /\ t.pc = "l_count"
    /\ task' = [task EXCEPT ![s][k] =
                    IF rm[s].room = Undefined
                    THEN Rejected(k, TypeError)
                    ELSE [t EXCEPT !.pc = "l_commit", !.room = rm[s].room, !.mid = rm[s].id,
                                   !.del = (CollectionCount(rm[s].room) <= 2)]]
    /\ UNCHANGED <<info, members, locations, clock, generated, rm, ws, listeners, calls>>

LeaveConflict(s, k) ==
    LET t == task[s][k] IN
    /\ t.pc = "l_commit"
    /\ t.stale
    /\ task' = [task EXCEPT ![s][k] =
                    IF t.tries < MaxTxnAttempts
                    THEN [IdleTask EXCEPT !.pc = "l_txn", !.tries = t.tries + 1]
                    ELSE Rejected(k, Aborted)]
    /\ UNCHANGED <<info, members, locations, clock, generated, rm, ws, listeners, calls>>

LeaveCommit(s, k) ==
    LET t == task[s][k] IN
    /\ t.pc = "l_commit"
    /\ ~t.stale
    /\ info' = IF t.del THEN Drop(info, {t.room}) ELSE info
    /\ members' = Drop(members, {<<t.room, t.mid>>})
    /\ task' = [(IF t.del THEN Staled(task, t.room, s, k) ELSE task) EXCEPT ![s][k] =
                    [IdleTask EXCEPT !.pc = "l_fin"]]
    /\ UNCHANGED <<locations, clock, generated, rm, ws, listeners, calls>>

\* The transaction has resolved: #sendLeft(), the maps are cleared, the session
\* is unbound. In the heartbeat callback ws.terminate() follows; in the catch
\* block of the message handler clearTimeout and ws.close(1011, error.message).
LeaveFinish(s, k) ==
    LET caught == IF k = "leave" THEN ws[s].caught ELSE "" IN
    /\ task[s][k].pc = "l_fin"
    /\ ws' = [Send(ws, s, SetToBag({Left(rm[s].id)})) EXCEPT
                    ![s].terminated = IF k = "hb" THEN TRUE ELSE @,
                    ![s].closed = IF caught # "" /\ @ = "" THEN caught ELSE @,
                    ![s].caught = IF k = "leave" THEN "" ELSE @]
    /\ rm' = [rm EXCEPT ![s] = [(IF caught # "" THEN TimerOff(@) ELSE @)
                                    EXCEPT !.room = Undefined, !.id = Undefined,
                                           !.locationUnsubscribes = <<>>,
                                           !.otherMembersData = <<>>]]
    /\ task' = [task EXCEPT ![s][k] = IdleTask]
    /\ UNCHANGED <<info, members, locations, clock, generated, listeners, calls>>

\* -------------------------------------------------------- #deleteLocations
\* #deleteLocations(batchSize) by itself, with any batch size: the check of
\* the batch size, then the loop. The call that has ended keeps its name, its
\* batch size and the number of its reads.
DeleteLocationsCall(s, batchSize) ==
    /\ calls < MaxDeleteCalls
    /\ task[s]["leave"].pc = "idle"
    /\ task' = [task EXCEPT ![s]["leave"] =
            IF batchSize < MinBatchSize \/ batchSize > MaxBatchSize
            THEN [IdleTask EXCEPT !.op = "deleteLocations", !.arg = batchSize,
                                  !.err = BatchSizeError]
            ELSE [IdleTask EXCEPT !.op = "deleteLocations", !.arg = batchSize,
                                  !.pc = "d_get"]]
    /\ calls' = calls + 1
    /\ UNCHANGED <<info, members, locations, clock, generated, rm, ws, listeners>>

\* this.locationRef.limit(batchSize).get(); the loop ends on an empty snapshot.
DeleteLocationsGet(s) ==
    LET t == task[s]["leave"]
        all == LocationsOf(rm[s].room, rm[s].id)
    IN
    /\ t.pc = "d_get"
    /\ IF rm[s].room = Undefined \/ rm[s].id = Undefined
       THEN task' = [task EXCEPT ![s]["leave"] =
                        [IdleTask EXCEPT !.op = t.op, !.arg = t.arg, !.err = NotInRoom]]
       ELSE \E snap \in SUBSET all :
                /\ Cardinality(snap) = IF Cardinality(all) < t.arg
                                       THEN Cardinality(all) ELSE t.arg
                /\ task' = [task EXCEPT ![s]["leave"] =
                        IF snap = {}
                        THEN [IdleTask EXCEPT !.op = t.op, !.arg = t.arg, !.tries = t.tries + 1]
                        ELSE [t EXCEPT !.snap = snap, !.tries = @ + 1, !.pc = "d_batch"]]
    /\ UNCHANGED <<info, members, locations, clock, generated, rm, ws, listeners, calls>>

\* Mutation of DeleteLocationsBatch: the loop ends after a batch that was not
\* larger than the batch size.
DeleteLocationsBatch_BreaksEarly(s) ==
    LET t == task[s]["leave"] IN
    /\ t.pc = "d_batch"
    /\ locations' = locations \ t.snap
    /\ task' = [task EXCEPT ![s]["leave"] =
            IF Cardinality(t.snap) <= t.arg
            THEN [IdleTask EXCEPT !.op = t.op, !.arg = t.arg, !.tries = t.tries]
            ELSE [t EXCEPT !.snap = {}, !.pc = "d_get"]]
    /\ UNCHANGED <<info, members, clock, generated, rm, ws, listeners, calls>>

\* batch.commit() of the deletes; the loop ends after a batch smaller than
\* the batch size.
DeleteLocationsBatch(s) ==
    LET t == task[s]["leave"] IN
    /\ t.pc = "d_batch"
    /\ locations' = locations \ t.snap
    /\ task' = [task EXCEPT ![s]["leave"] =
            IF Cardinality(t.snap) < t.arg
            THEN [IdleTask EXCEPT !.op = t.op, !.arg = t.arg, !.tries = t.tries]
            ELSE [t EXCEPT !.snap = {}, !.pc = "d_get"]]
    /\ UNCHANGED <<info, members, clock, generated, rm, ws, listeners, calls>>

\* ----------------------------------------------------------- checkAlive
\* Mutation of CheckAlive: the timer is set without clearTimeout.
CheckAlive_NoClear(s) ==
    /\ calls < MaxCalls
    /\ Open(s)
    /\ ws' = Send(ws, s, SetToBag({Ping}))
    /\ rm' = [rm EXCEPT ![s].heartbeatTimeout = TRUE, ![s].timers = @ + 1]
    /\ calls' = calls + 1
    /\ UNCHANGED <<info, members, locations, clock, generated, listeners, task>>

\* A `pong` message arrives: checkAlive sends a `ping`, clears the timer it
\* holds and sets a new one.
CheckAlive(s) ==
    /\ calls < MaxCalls
    /\ Open(s)
    /\ ws' = Send(ws, s, SetToBag({Ping}))
    /\ rm' = [rm EXCEPT ![s] = [TimerOff(@) EXCEPT !.heartbeatTimeout = TRUE,
                                                   !.timers = @ + 1]]
    /\ calls' = calls + 1
    /\ UNCHANGED <<info, members, locations, clock, generated, listeners, task>>

\* The heartbeat timer set by checkAlive fires: await this.leaveRoom(), then
\* this.ws.terminate(). On an unbound session leaveRoom returns at once.
HeartbeatExpire(s) ==
    /\ rm[s].heartbeatTimeout
    /\ task[s]["hb"].pc = "idle"
    /\ IF rm[s].room # Undefined /\ rm[s].id # Undefined
       THEN /\ LeaveRoomBegin(s, "hb")
            /\ UNCHANGED <<ws, calls>>
       ELSE /\ rm' = [rm EXCEPT ![s] = TimerOff(@)]
            /\ ws' = [ws EXCEPT ![s].terminated = TRUE]
            /\ UNCHANGED <<info, members, locations, clock, generated, listeners, task, calls>>

\* ------------------------------------------------------- updateLocation
\* updateLocation up to the await: this.locationRef.doc() fixes the path.
UpdateLocationCall(s, pt) ==
    /\ calls < MaxCalls
    /\ Open(s)
    /\ task[s]["update"].pc = "idle"
    /\ rm[s].room # Undefined
    /\ rm[s].id # Undefined
    /\ task' = [task EXCEPT ![s]["update"] =
                    [IdleTask EXCEPT !.pc = "u_set", !.room = rm[s].room,
                                     !.mid = rm[s].id, !.pt = pt]]
    /\ calls' = calls + 1
    /\ UNCHANGED <<info, members, locations, clock, generated, rm, ws, listeners>>

\* updateLocation(lat, lng) with any arguments.
UpdateLocationArgs(s, lat, lng) ==
    LET e == IF rm[s].room = Undefined \/ rm[s].id = Undefined THEN UserInRoom
             ELSE CoordinateError(lat, lng)
    IN
    IF e = "" THEN UpdateLocationCall(s, <<lat, lng>>)
    ELSE RejectCall(s, "update", e, <<lat, lng>>)

\* Mutation of UpdateSet: the Location is set on one document per Member,
\* which the write replaces.
UpdateSet_Overwrites(s) ==
    LET t == task[s]["update"] IN
    /\ t.pc = "u_set"
    /\ locations' = (locations \ LocationsOf(t.room, t.mid))
                        \cup {LocationDoc(t.room, t.mid, t.pt, clock)}
    /\ clock' = clock + 1
    /\ task' = [task EXCEPT ![s]["update"] = IdleTask]
    /\ UNCHANGED <<info, members, generated, rm, ws, listeners, calls>>

\* The set() of the new Location document reaches the store.
UpdateSet(s) ==
    LET t == task[s]["update"] IN
    /\ t.pc = "u_set"
    /\ locations' = locations \cup {LocationDoc(t.room, t.mid, t.pt, clock)}
    /\ clock' = clock + 1
    /\ task' = [task EXCEPT ![s]["update"] = IdleTask]
    /\ UNCHANGED <<info, members, generated, rm, ws, listeners, calls>>

\* ------------------------------------------------------------ proposals
\* Mutation of ArrayUnion: the element is appended, present or not.
ArrayUnion_Appends(a, x) == Append(a, x)

\* FieldValue.arrayUnion / arrayRemove on an array field
ArrayUnion(a, x) == IF \E i \in DOMAIN a : a[i] = x THEN a ELSE Append(a, x)
ArrayRemove(a, x) == SelectSeq(a, LAMBDA y : y # x)
\* The map at key `id` of the proposal map P, empty when there is none, and
\* its array `acceptedBy`, which an array transform takes as empty when the
\* field does not exist.
EntryOf(P, id) == IF id \in DOMAIN P THEN P[id] ELSE <<>>
AcceptedBy(P, id) ==
    IF "acceptedBy" \in DOMAIN EntryOf(P, id) THEN EntryOf(P, id).acceptedBy ELSE <<>>

\* Mutation of ProposalUpdate: propose merges the new entry into the old one,
\* the acceptances recorded on it are kept.
ProposalUpdate_ProposeMerges(P, op, id, arg, pt) ==
    CASE op = "propose" -> Put(P, id, [location |-> pt, acceptedBy |-> AcceptedBy(P, id)])
      [] op = "accept" ->
            Put(P, arg, Put(EntryOf(P, arg), "acceptedBy", ArrayUnion(AcceptedBy(P, arg), id)))
      [] op = "revoke" ->
            Put(P, arg, Put(EntryOf(P, arg), "acceptedBy", ArrayRemove(AcceptedBy(P, arg), id)))
      [] op = "clear" -> Drop(P, {id})

\* Mutation of ProposalUpdate: propose writes the whole proposal map.
ProposalUpdate_ProposeReplacesMap(P, op, id, arg, pt) ==
    CASE op = "propose" -> Put(<<>>, id, [location |-> pt, acceptedBy |-> <<>>])
      [] op = "accept" ->
            Put(P, arg, Put(EntryOf(P, arg), "acceptedBy", ArrayUnion(AcceptedBy(P, arg), id)))
      [] op = "revoke" ->
            Put(P, arg, Put(EntryOf(P, arg), "acceptedBy", ArrayRemove(AcceptedBy(P, arg), id)))
      [] op = "clear" -> Drop(P, {id})

\* Mutation of ProposalUpdate: revoke leaves the array as it is.
ProposalUpdate_RevokeKeeps(P, op, id, arg, pt) ==
    CASE op = "propose" -> Put(P, id, [location |-> pt, acceptedBy |-> <<>>])
      [] op = "accept" ->
            Put(P, arg, Put(EntryOf(P, arg), "acceptedBy", ArrayUnion(AcceptedBy(P, arg), id)))
      [] op = "revoke" ->
            Put(P, arg, Put(EntryOf(P, arg), "acceptedBy", AcceptedBy(P, arg)))
      [] op = "clear" -> Drop(P, {id})

\* t.update(infoRef, {...}) of the four operations on the proposal map P,
\* by the member id: update creates the maps on the field path it names.
ProposalUpdate(P, op, id, arg, pt) ==
    CASE op = "propose" -> Put(P, id, [location |-> pt, acceptedBy |-> <<>>])
      [] op = "accept" ->
            Put(P, arg, Put(EntryOf(P, arg), "acceptedBy", ArrayUnion(AcceptedBy(P, arg), id)))
      [] op = "revoke" ->
            Put(P, arg, Put(EntryOf(P, arg), "acceptedBy", ArrayRemove(AcceptedBy(P, arg), id)))
      [] op = "clear" -> Drop(P, {id})

\* proposeMeetingPoint, acceptMeetingPoint, revokeMeetingPointAcceptance,
\* deleteProposedMeetingPoint on a bound session: the transaction callback
\* buffers one update of the info record.
NegotiateCall(s, op, arg, pt) ==
    /\ calls < MaxNegotiateCalls
    /\ Open(s)
    /\ task[s]["negotiate"].pc = "idle"
    /\ rm[s].room # Undefined
    /\ rm[s].id # Undefined
    /\ task' = [task EXCEPT ![s]["negotiate"] =
                    [IdleTask EXCEPT !.pc = "n_commit", !.room = rm[s].room, !.mid = rm[s].id,
                                     !.op = op, !.pt = pt,
                                     !.arg = IF op \in {"accept", "revoke"} THEN arg ELSE Undefined]]
    /\ calls' = calls + 1
    /\ UNCHANGED <<info, members, locations, clock, generated, rm, ws, listeners>>

\* proposeMeetingPoint(geoPoint) with any argument: the callback of the
\* transaction throws before it buffers the update.
ProposeMeetingPointArgs(s, g) ==
    LET e == IF rm[s].room = Undefined \/ rm[s].id = Undefined THEN UserInRoom
             ELSE IF ~IsGeoPoint(g) THEN InvalidGeoPoint
             ELSE ""
    IN
    IF e = "" THEN NegotiateCall(s, "propose", Undefined, g)
    ELSE RejectCall(s, "negotiate", e, g)

\* The commit of the update: it fails when the info record does not exist.
\* The call that has resolved keeps the name of its operation, its argument
\* and whether the update has left the proposal map as it was.
NegotiateCommit(s) ==
    LET t == task[s]["negotiate"] IN
    /\ t.pc = "n_commit"
    /\ IF t.room \in DOMAIN info
       THEN /\ info' = [info EXCEPT ![t.room].proposals =
                            ProposalUpdate(@, t.op, t.mid, t.arg, t.pt)]
            /\ task' = [Staled(task, t.room, s, "negotiate") EXCEPT ![s]["negotiate"] =
                            [IdleTask EXCEPT !.op = t.op, !.arg = t.arg,
                                             !.kept = (info' = info)]]
       ELSE /\ info' = info
            /\ task' = [task EXCEPT ![s]["negotiate"] = Rejected("negotiate", DocNotFound)]
    /\ UNCHANGED <<members, locations, clock, generated, rm, ws, listeners, calls>>

\* ------------------------------------------- #createRoomSnapshotListener
\* What a listener on the collection of room c is shown: the info record and
\* the Member records of the room.
RosterView(c) ==
    [info |-> IF c \in DOMAIN info THEN <<info[c]>> ELSE <<>>,
     members |-> [m \in MembersOf(c) |-> members[<<c, m>>]],
     top |-> 0]

\* What a listener on orderBy('time', 'desc').limit(1) of a Member's
\* locations is shown: the newest Location, by its time; 0 when there is none.
TopTime(c, m) ==
    IF LocationsOf(c, m) = {} THEN 0
    ELSE CHOOSE t \in {l.time : l \in LocationsOf(c, m)} :
            \A l \in LocationsOf(c, m) : l.time <= t

RECURSIVE Ascending(_)
Ascending(S) ==
    IF S = {} THEN <<>>
    ELSE LET m == CHOOSE x \in S : \A y \in S : x <= y
         IN  <<m>> \o Ascending(S \ {m})

\* ------------------------------------------------ other writers of the store
\* The Member records are documents of a shared store, and the roster
\* listener handles their modification. A writer marks a Member lost: the
\* expiry of the server's own heartbeat (server.mjs:298-312) does, when the
\* Member record exists.
MarkLost(c, m) ==
    /\ <<c, m>> \in DOMAIN members
    /\ ~members[<<c, m>>].lost
    /\ members' = [members EXCEPT ![<<c, m>>].lost = TRUE]
    /\ UNCHANGED <<info, locations, clock, generated, rm, ws, listeners, task, calls>>

\* A writer updates a field of a Member record other than `lost`: the
\* `modified` branch of the listener is written for it (it compares `lost`).
MemberTouch(c, m) ==
    /\ clock < MaxModifyClock
    /\ <<c, m>> \in DOMAIN members
    /\ members' = [members EXCEPT ![<<c, m>>].joinedAt = clock]
    /\ clock' = clock + 1
    /\ UNCHANGED <<info, locations, generated, rm, ws, listeners, task, calls>>

\* Mutation of RosterDeliver: every `modified` change of a peer is sent.
RosterDeliver_EveryModified(h) ==
    LET l == listeners[h]
        s == l.owner
        view == RosterView(l.room)
        old == l.seen
        self == rm[s].id
        lu == rm[s].locationUnsubscribes
        omd == rm[s].otherMembersData
        infoChange == view.info # old.info
        infoData == IF view.info # <<>> THEN view.info[1] ELSE old.info[1]
        throws == infoChange /\ rm[s].room = Undefined
        added == (DOMAIN view.members \ DOMAIN old.members) \ {self}
        removed == (DOMAIN old.members \ DOMAIN view.members) \ {self}
        modified == {m \in (DOMAIN view.members \cap DOMAIN old.members) \ {self} :
                        view.members[m] # old.members[m]}
    IN
    /\ l.kind = "roster"
    /\ l.active
    /\ l.since = 0 \/ view # old
    /\ \E done \in SUBSET (added \cup removed \cup modified) :
        LET A == added \cap done
            R == removed \cap done
            M == modified \cap done
            order == Ascending(A)
            handle(m) == Len(listeners) + Cardinality({x \in A : x <= m})
            msgs == (IF infoChange /\ ~throws
                     THEN {RoomUpdate(rm[s].room, infoData.proposals)} ELSE {})
                    \cup {MemberUpdate(m, view.members[m]) : m \in A}
                    \cup {MemberUpdate(m, view.members[m]) : m \in M}
                    \cup {Left(m) : m \in R}
        IN
        /\ ~throws => done = added \cup removed \cup modified
        /\ ws' = Send(ws, s, SetToBag(msgs))
        /\ listeners' =
            [Unsubscribe(listeners, {lu[m] : m \in R \cap DOMAIN lu})
                EXCEPT ![h].seen = view, ![h].since = IF @ = 0 THEN clock ELSE @]
            \o [i \in 1..Len(order) |-> LocationListener(s, l.room, order[i])]
        /\ rm' = [rm EXCEPT
            ![s].locationUnsubscribes =
                [m \in (DOMAIN lu \ R) \cup A |-> IF m \in A THEN handle(m) ELSE lu[m]],
            ![s].otherMembersData =
                [m \in (DOMAIN omd \ R) \cup A \cup M |->
                    IF m \in A \cup M THEN view.members[m] ELSE omd[m]]]
    /\ UNCHANGED <<info, members, locations, clock, generated, task, calls>>

\* The store delivers a snapshot to the roster listener h: docChanges() is the
\* difference to the snapshot delivered before, and the callback handles every
\* change. A callback that throws at the info record (this.room undefined)
\* has handled the changes that came before it in the snapshot.
RosterDeliver(h) ==
    LET l == listeners[h]
        s == l.owner
        view == RosterView(l.room)
        old == l.seen
        self == rm[s].id
        lu == rm[s].locationUnsubscribes
        omd == rm[s].otherMembersData
        infoChange == view.info # old.info
        infoData == IF view.info # <<>> THEN view.info[1] ELSE old.info[1]
        throws == infoChange /\ rm[s].room = Undefined
        added == (DOMAIN view.members \ DOMAIN old.members) \ {self}
        removed == (DOMAIN old.members \ DOMAIN view.members) \ {self}
        modified == {m \in (DOMAIN view.members \cap DOMAIN old.members) \ {self} :
                        view.members[m] # old.members[m]}
    IN
    /\ l.kind = "roster"
    /\ l.active
    /\ l.since = 0 \/ view # old
    /\ \E done \in SUBSET (added \cup removed \cup modified) :
        LET A == added \cap done
            R == removed \cap done
            M == modified \cap done
            order == Ascending(A)
            handle(m) == Len(listeners) + Cardinality({x \in A : x <= m})
            msgs == (IF infoChange /\ ~throws
                     THEN {RoomUpdate(rm[s].room, infoData.proposals)} ELSE {})
                    \cup {MemberUpdate(m, view.members[m]) : m \in A}
                    \cup {MemberUpdate(m, view.members[m]) :
                            m \in {x \in M : x \notin DOMAIN omd
                                             \/ omd[x].lost # view.members[x].lost}}
                    \cup {Left(m) : m \in R}
        IN
        /\ ~throws => done = added \cup removed \cup modified
        /\ ws' = Send(ws, s, SetToBag(msgs))
        /\ listeners' =
            [Unsubscribe(listeners, {lu[m] : m \in R \cap DOMAIN lu})
                EXCEPT ![h].seen = view, ![h].since = IF @ = 0 THEN clock ELSE @]
            \o [i \in 1..Len(order) |-> LocationListener(s, l.room, order[i])]
        /\ rm' = [rm EXCEPT
            ![s].locationUnsubscribes =
                [m \in (DOMAIN lu \ R) \cup A |-> IF m \in A THEN handle(m) ELSE lu[m]],
            ![s].otherMembersData =
                [m \in (DOMAIN omd \ R) \cup A \cup M |->
                    IF m \in A \cup M THEN view.members[m] ELSE omd[m]]]
    /\ UNCHANGED <<info, members, locations, clock, generated, task, calls>>

\* The store delivers a snapshot to the location listener h of a peer.
LocationDeliver(h) ==
    LET l == listeners[h]
        top == TopTime(l.room, l.peer)
    IN
    /\ l.kind = "location"
    /\ l.active
    /\ l.since = 0 \/ top # l.seen.top
    /\ ws' = IF top = 0 THEN ws
             ELSE Send(ws, l.owner, SetToBag({LocationMsg(l.peer,
                        CHOOSE d \in LocationsOf(l.room, l.peer) : d.time = top)}))
    /\ listeners' = [listeners EXCEPT ![h].seen.top = top, ![h].since = IF @ = 0 THEN clock ELSE @]
    /\ UNCHANGED <<info, members, locations, clock, generated, rm, task, calls>>

\* ------------------------------------------------------ specifications
CreateSteps(s) ==
    \/ CreateProbe(s)
    \/ CreateExhausted(s)
    \/ CreateConflict(s)
    \/ CreateCommit(s)
    \/ CreateBind(s)

JoinSteps(s) ==
    \/ JoinGet(s)
    \/ JoinTxnGet(s)
    \/ JoinConflict(s)
    \/ JoinCommit(s)
    \/ JoinBind(s)

LeaveSteps(s, k) ==
    \/ LeaveTxnGet(s, k)
    \/ LeaveLocGet(s, k)
    \/ LeaveBatch(s, k)
    \/ LeaveCount(s, k)
    \/ LeaveConflict(s, k)
    \/ LeaveCommit(s, k)
    \/ LeaveFinish(s, k)

Origin == {Zero}

\* Sessions that only create rooms.
NextCreate ==
    \E s \in Sessions :
        \/ \E pt \in Origin : CreateRoomCall(s, pt)
        \/ CreateSteps(s)

SpecCreate == Init /\ [][NextCreate]_vars

\* Sessions that create, join and leave rooms.
NextMembership ==
    \E s \in Sessions :
        \/ \E pt \in Origin : CreateRoomCall(s, pt)
        \/ CreateSteps(s)
        \/ \E c \in Codes, pt \in Origin : JoinRoomCall(s, c, pt)
        \/ JoinSteps(s)
        \/ LeaveRoomCall(s)
        \/ LeaveSteps(s, "leave")

SpecMembership == Init /\ [][NextMembership]_vars

\* Sessions that create, join and leave rooms and whose clients wait for the
\* end of a call before they make the next one.
SessionIdle(s) == \A k \in Kinds : task[s][k].pc = "idle"

NextSequential ==
    \E s \in Sessions :
        \/ \E pt \in Origin : SessionIdle(s) /\ CreateRoomCall(s, pt)
        \/ CreateSteps(s)
        \/ \E c \in Codes, pt \in Origin : SessionIdle(s) /\ JoinRoomCall(s, c, pt)
        \/ JoinSteps(s)
        \/ SessionIdle(s) /\ LeaveRoomCall(s)
        \/ LeaveSteps(s, "leave")

SpecSequential == Init /\ [][NextSequential]_vars

\* Sessions that create and leave rooms and report locations.
NextLocations ==
    \E s \in Sessions :
        \/ \E pt \in Origin : CreateRoomCall(s, pt)
        \/ CreateSteps(s)
        \/ \E pt \in Points : UpdateLocationCall(s, pt)
        \/ UpdateSet(s)
        \/ LeaveRoomCall(s)
        \/ LeaveSteps(s, "leave")

SpecLocations == Init /\ [][NextLocations]_vars

\* Sessions that create, join and leave rooms, with the heartbeat timer.
NextHeartbeat ==
    \E s \in Sessions :
        \/ \E pt \in Origin : calls < MaxFanoutCalls /\ CreateRoomCall(s, pt)
        \/ CreateSteps(s)
        \/ \E c \in Codes, pt \in Origin : calls < MaxFanoutCalls /\ JoinRoomCall(s, c, pt)
        \/ JoinSteps(s)
        \/ calls < MaxFanoutCalls /\ LeaveRoomCall(s)
        \/ \E k \in LeaveKinds : LeaveSteps(s, k)
        \/ HeartbeatExpire(s)

SpecHeartbeat == Init /\ [][NextHeartbeat]_vars

\* Session 1 creates a room and reports locations, the other sessions join,
\* with the listeners. One session creates, once, so no code is taken and no
\* transaction is contended: the steps of those outcomes are left out.
NextLocationFanout ==
    \/ \E h \in DOMAIN listeners : RosterDeliver(h)
    \/ \E h \in DOMAIN listeners : LocationDeliver(h)
    \/ \E pt \in Origin : CreateRoomCall(1, pt)
    \/ CreateProbe(1)
    \/ CreateCommit(1)
    \/ CreateBind(1)
    \/ \E pt \in Points : UpdateLocationCall(1, pt)
    \/ UpdateSet(1)
    \/ \E s \in Sessions \ {1} :
        \/ \E c \in Codes, pt \in Origin : JoinRoomCall(s, c, pt)
        \/ JoinGet(s)
        \/ JoinTxnGet(s)
        \/ JoinCommit(s)
        \/ JoinBind(s)

SpecLocationFanout == Init /\ [][NextLocationFanout]_vars

\* Sessions that create, join and leave rooms, with the roster listeners
\* (the snapshots of the location listeners are not delivered).
NextRosterFanout ==
    \/ \E h \in DOMAIN listeners : RosterDeliver(h)
    \/ \E s \in Sessions :
        \/ \E pt \in Origin : calls < MaxFanoutCalls /\ CreateRoomCall(s, pt)
        \/ CreateSteps(s)
        \/ \E c \in Codes, pt \in Origin : calls < MaxFanoutCalls /\ JoinRoomCall(s, c, pt)
        \/ JoinSteps(s)
        \/ calls < MaxFanoutCalls /\ LeaveRoomCall(s)
        \/ LeaveSteps(s, "leave")

SpecRosterFanout == Init /\ [][NextRosterFanout]_vars

\* Sessions whose clients create and join rooms and send messages the server
\* cannot handle, waiting for the end of a call before the next one.
NextServerError ==
    \E s \in Sessions :
        \/ \E pt \in Origin : SessionIdle(s) /\ CreateRoomCall(s, pt)
        \/ CreateSteps(s)
        \/ \E c \in Codes, pt \in Origin : SessionIdle(s) /\ JoinRoomCall(s, c, pt)
        \/ JoinSteps(s)
        \/ SessionIdle(s) /\ MessageError(s, UnknownType)
        \/ LeaveSteps(s, "leave")

SpecServerError == Init /\ [][NextServerError]_vars

\* Sessions whose clients create, join and leave rooms, waiting for the end
\* of a call before the next one, and close their connection when they are
\* bound; the heartbeat timer of a closed connection expires.
NextClose ==
    \E s \in Sessions :
        \/ \E pt \in Origin : SessionIdle(s) /\ CreateRoomCall(s, pt)
        \/ CreateSteps(s)
        \/ \E c \in Codes, pt \in Origin : SessionIdle(s) /\ JoinRoomCall(s, c, pt)
        \/ JoinSteps(s)
        \/ SessionIdle(s) /\ LeaveRoomCall(s)
        \/ \E k \in LeaveKinds : LeaveSteps(s, k)
        \/ rm[s].room # Undefined /\ rm[s].id # Undefined /\ ConnectionClose(s)
        \/ ws[s].closed = PeerClosed /\ HeartbeatExpire(s)

SpecClose == Init /\ [][NextClose]_vars

\* Session 1 creates a room and proposes and clears a meeting point, the
\* other sessions join the room and accept and revoke, one call after the
\* other.
NegotiateSteps ==
    \/ \E pt \in Origin : CreateRoomCall(1, pt)
    \/ CreateProbe(1)
    \/ CreateCommit(1)
    \/ CreateBind(1)
    \/ \E s \in Sessions \ {1} :
        \/ \E c \in Codes, pt \in Origin : JoinRoomCall(s, c, pt)
        \/ JoinSteps(s)
    \/ \E s \in Sessions : NegotiateCommit(s)

NextNegotiate ==
    \/ NegotiateSteps
    \/ \E op \in {"propose", "clear"}, pt \in Points :
            SessionIdle(1) /\ NegotiateCall(1, op, Undefined, pt)
    \/ \E s \in Sessions \ {1} :
        \E op \in {"accept", "revoke"}, arg \in DOMAIN generated :
            SessionIdle(s) /\ NegotiateCall(s, op, arg, Zero)

SpecNegotiate == Init /\ [][NextNegotiate]_vars

\* Session 1 creates a room and leaves it, the other sessions join the room
\* and accept and revoke the proposal of Member 1, one call after the other,
\* with the roster listeners.
NextRoomUpdate ==
    \/ \E h \in DOMAIN listeners : RosterDeliver(h)
    \/ \E pt \in Origin : CreateRoomCall(1, pt)
    \/ CreateProbe(1)
    \/ CreateCommit(1)
    \/ CreateBind(1)
    \/ SessionIdle(1) /\ LeaveRoomCall(1)
    \/ LeaveSteps(1, "leave")
    \/ \E s \in Sessions \ {1} :
        \/ \E c \in Codes, pt \in Origin : SessionIdle(s) /\ JoinRoomCall(s, c, pt)
        \/ JoinSteps(s)
        \/ \E op \in {"accept", "revoke"} :
            calls < MaxRoomUpdateCalls /\ SessionIdle(s) /\ NegotiateCall(s, op, 1, Zero)
        \/ NegotiateCommit(s)

SpecRoomUpdate == Init /\ [][NextRoomUpdate]_vars

\* Sessions that call createRoom, joinRoom, updateLocation and
\* proposeMeetingPoint with any arguments, one call after the other.
Latitudes ==
    {JsUndefined, JsNull, JsString, JsNaN,
     Num(-MaxLatitude - 1), Num(-MaxLatitude), Num(0), Num(MaxLatitude), Num(MaxLatitude + 1)}
Longitudes ==
    {JsUndefined, JsNull, JsString, JsNaN,
     Num(-MaxLongitude - 1), Num(-MaxLongitude), Num(0), Num(MaxLongitude), Num(MaxLongitude + 1)}
Arguments ==
    (Latitudes \X {Num(0)}) \cup ({Num(0)} \X Longitudes)
        \cup {<<JsUndefined, JsUndefined>>, <<JsNaN, JsNaN>>,
               <<Num(MaxLatitude + 1), JsNull>>, <<JsString, Num(MaxLongitude + 1)>>}

NextValidate ==
    \E s \in Sessions :
        \/ \E a \in Arguments :
            calls < MaxValidateCalls /\ SessionIdle(s) /\ CreateRoomArgs(s, a[1], a[2])
        \/ \E a \in Arguments, c \in Codes \cup {Undefined} :
            calls < MaxValidateCalls /\ SessionIdle(s) /\ JoinRoomArgs(s, c, a[1], a[2])
        \/ \E a \in Arguments :
            calls < MaxValidateCalls /\ SessionIdle(s) /\ UpdateLocationArgs(s, a[1], a[2])
        \/ \E a \in Arguments :
            calls < MaxValidateCalls /\ SessionIdle(s) /\ ProposeMeetingPointArgs(s, a)
        \/ CreateProbe(s)
        \/ CreateCommit(s)
        \/ CreateBind(s)
        \/ JoinGet(s)
        \/ JoinTxnGet(s)
        \/ JoinCommit(s)
        \/ JoinBind(s)
        \/ UpdateSet(s)
        \/ NegotiateCommit(s)

SpecValidate == Init /\ [][NextValidate]_vars

\* Sessions that create and join rooms, one call after the other, answer
\* pings and send messages the server cannot handle, with the heartbeat timer.
NextPong ==
    \E s \in Sessions :
        \/ \E pt \in Origin : calls < MaxFanoutCalls /\ SessionIdle(s) /\ CreateRoomCall(s, pt)
        \/ CreateSteps(s)
        \/ \E c \in Codes, pt \in Origin :
                calls < MaxFanoutCalls /\ SessionIdle(s) /\ JoinRoomCall(s, c, pt)
        \/ JoinSteps(s)
        \/ CheckAlive(s)
        \/ SessionIdle(s) /\ MessageError(s, UnknownType)
        \/ \E k \in LeaveKinds : LeaveSteps(s, k)
        \/ HeartbeatExpire(s)

SpecPong == Init /\ [][NextPong]_vars

\* The same sessions, with the roster listeners and the location listeners.
NextFanoutLeave ==
    \/ NextRoomUpdate
    \/ \E h \in DOMAIN listeners : LocationDeliver(h)

SpecFanoutLeave == Init /\ [][NextFanoutLeave]_vars

\* Session 1 creates a room, the other sessions join it, one call after the
\* other, with the roster listeners; writers of the store mark Members lost
\* and update other fields of them.
NextModified ==
    \/ \E h \in DOMAIN listeners : RosterDeliver(h)
    \/ \E pt \in Origin : CreateRoomCall(1, pt)
    \/ CreateProbe(1)
    \/ CreateCommit(1)
    \/ CreateBind(1)
    \/ \E s \in Sessions \ {1} :
        \/ \E c \in Codes, pt \in Origin : SessionIdle(s) /\ JoinRoomCall(s, c, pt)
        \/ JoinGet(s)
        \/ JoinTxnGet(s)
        \/ JoinCommit(s)
        \/ JoinBind(s)
    \/ \E p \in DOMAIN members : MarkLost(p[1], p[2])
    \/ \E p \in DOMAIN members : MemberTouch(p[1], p[2])

SpecModified == Init /\ [][NextModified]_vars

\* Session 1 creates a room and reports locations; between its calls, with
\* no other writer of its Locations, #deleteLocations runs with any batch
\* size. The reads and the commits of the store are answered.
BatchSizes == {-1, 0, MinBatchSize, 2, 3, DefaultBatchSize, MaxBatchSize, MaxBatchSize + 1}

NextDeleteLocations ==
    \/ \E pt \in Origin : CreateRoomCall(1, pt)
    \/ CreateProbe(1)
    \/ CreateCommit(1)
    \/ CreateBind(1)
    \/ \E pt \in Origin : SessionIdle(1) /\ UpdateLocationCall(1, pt)
    \/ UpdateSet(1)
    \/ \E b \in BatchSizes : SessionIdle(1) /\ rm[1].room # Undefined /\ DeleteLocationsCall(1, b)
    \/ DeleteLocationsGet(1)
    \/ DeleteLocationsBatch(1)

SpecDeleteLocations ==
    /\ Init
    /\ [][NextDeleteLocations]_vars
    /\ WF_vars(DeleteLocationsGet(1))
    /\ WF_vars(DeleteLocationsBatch(1))

\* Session 1 creates a room and proposes a meeting point, the other sessions
\* join the room and accept the proposal of Member 1; the sessions leave;
\* one call of a session after the other.
NextProposalLeave ==
    \/ NegotiateSteps
    \/ \E pt \in Origin : SessionIdle(1) /\ NegotiateCall(1, "propose", Undefined, pt)
    \/ \E s \in Sessions \ {1} : SessionIdle(s) /\ NegotiateCall(s, "accept", 1, Zero)
    \/ \E s \in Sessions :
        \/ SessionIdle(s) /\ LeaveRoomCall(s)
        \/ LeaveSteps(s, "leave")

SpecProposalLeave == Init /\ [][NextProposalLeave]_vars

\* Every call and every step.
Next ==
    \/ \E h \in DOMAIN listeners : RosterDeliver(h)
    \/ \E h \in DOMAIN listeners : LocationDeliver(h)
    \/ \E s \in Sessions :
        \/ \E pt \in Points : CreateRoomCall(s, pt)
        \/ CreateSteps(s)
        \/ \E c \in Codes, pt \in Points : JoinRoomCall(s, c, pt)
        \/ JoinSteps(s)
        \/ LeaveRoomCall(s)
        \/ \E k \in LeaveKinds : LeaveSteps(s, k)
        \/ HeartbeatExpire(s)
        \/ \E pt \in Points : UpdateLocationCall(s, pt)
        \/ UpdateSet(s)
        \/ MessageError(s, UnknownType)
        \/ ConnectionClose(s)
        \/ CheckAlive(s)
        \/ \E op \in NegotiateOps, arg \in DOMAIN generated, pt \in Points :
                NegotiateCall(s, op, arg, pt)
        \/ NegotiateCommit(s)
    \/ \E p \in DOMAIN members : MarkLost(p[1], p[2])
    \/ \E p \in DOMAIN members : MemberTouch(p[1], p[2])
    \/ \E s \in Sessions :
        \/ \E b \in BatchSizes : DeleteLocationsCall(s, b)
        \/ DeleteLocationsGet(s)
        \/ DeleteLocationsBatch(s)

Spec == Init /\ [][Next]_vars

\* ================================================================ claims
AllIdle == \A s \in Sessions, k \in Kinds : task[s][k].pc = "idle"
Bound(s) == rm[s].room # Undefined /\ rm[s].id # Undefined
Unbound(s) == rm[s].room = Undefined /\ rm[s].id = Undefined
\* The messages of a type among the messages sent to session s.
SentOf(s, types) == {m \in DOMAIN ws[s].sent : m.type \in types}
\* The number of times message m was sent to session s.
Copies(s, m) == IF m \in DOMAIN ws[s].sent THEN ws[s].sent[m] ELSE 0
RECURSIVE Sum(_, _)
Sum(f, S) == IF S = {} THEN 0
             ELSE LET x == CHOOSE y \in S : TRUE IN f[x] + Sum(f, S \ {x})

\* The room code a successful createRoom of session s has returned, if any.
CreatedCode(s) ==
    IF task[s]["create"].pc = "c_bind" THEN task[s]["create"].room ELSE rm[s].room

\* C1: concurrent createRoom calls never return the same room code, and the
\* commit of a create never writes the info record of a code whose info
\* record exists. (Under SpecCreate no room is ever deleted, so two codes
\* returned are codes of rooms that exist together.)
C1_DistinctCodes ==
    \A s1, s2 \in Sessions :
        (s1 # s2 /\ CreatedCode(s1) # Undefined /\ CreatedCode(s2) # Undefined)
            => CreatedCode(s1) # CreatedCode(s2)
C1_NoOverwrite ==
    \A s \in Sessions :
        (task[s]["create"].pc = "c_commit" /\ task'[s]["create"].pc = "c_bind")
            => task[s]["create"].room \notin DOMAIN info
C1_UniqueRoomCodes == [](C1_DistinctCodes) /\ [][C1_NoOverwrite]_vars

\* C2: in every committed store state a room's info record exists if and
\* only if at least one Member record exists in that room.
C2_RoomIffMember ==
    \A c \in Codes : (c \in DOMAIN info) <=> (MembersOf(c) # {})

\* C3: when as many leaveRoom calls have completed as Members have been
\* created (every create or join commit takes one tick of the clock, every
\* completed leaveRoom sends one `left`), no info record, no Member and no
\* Location remains.
LeavesCompleted ==
    Sum([s \in Sessions |-> Sum(ws[s].sent, SentOf(s, {"left"}))], Sessions)
C3_AllLeftRoomGone ==
    (AllIdle /\ clock > 1 /\ LeavesCompleted = clock - 1)
        => (info = <<>> /\ members = <<>> /\ locations = {})

\* C4: the commit of leaveRoom deletes the info record only if the leaving
\* Member is the only Member record of the room at that moment.
C4_DeleteOnlyWhenLast ==
    [][\A s \in Sessions, k \in LeaveKinds :
        (/\ task[s][k].pc = "l_commit"
         /\ task'[s][k].pc = "l_fin"
         /\ task[s][k].room \in DOMAIN info
         /\ task[s][k].room \notin DOMAIN info')
            => MembersOf(task[s][k].room) \subseteq {task[s][k].mid}]_vars

\* C5 (as the final result of the expiry callback): when the heartbeat
\* callback of a bound session has come to its end, the connection is
\* terminated and the session's Member record and its Locations are deleted.
C5_ExpiryEvicts ==
    \A s \in Sessions :
        task[s]["hb"].pc = "h_failed"
            => /\ ws[s].terminated
               /\ Bound(s) => /\ <<rm[s].room, rm[s].id>> \notin DOMAIN members
                              /\ LocationsOf(rm[s].room, rm[s].id) = {}

\* C6: at most one Member record exists in the store on behalf of a session.
MembersBy(s) == {p \in DOMAIN members : generated[p[2]] = s}
C6_OneMemberPerSession ==
    \A s \in Sessions : Cardinality(MembersBy(s)) <= 1

\* C7: every Location record belongs to a Member record that exists.
C7_LocationsHaveMember ==
    \A l \in locations : <<l.room, l.member>> \in DOMAIN members

\* C8: a session bound to A's room whose location listener for A was
\* registered before an updateLocation of A and has been shown that Location
\* or a newer one has been sent exactly one `location` event for it.
C8_EveryUpdateOnce ==
    \A h \in DOMAIN listeners :
        LET l == listeners[h] IN
        (l.kind = "location" /\ l.active /\ l.since # 0 /\ rm[l.owner].room = l.room)
            => \A d \in LocationsOf(l.room, l.peer) :
                (l.since <= d.time /\ d.time <= l.seen.top)
                    => Copies(l.owner, LocationMsg(l.peer, d)) = 1

\* C9: a session whose leaveRoom has completed is sent no further
\* `location`, `memberUpdate`, `roomUpdate` or `left` event while it is unbound.
EventTypes == {"location", "memberUpdate", "roomUpdate", "left"}
Events(s) == [m \in SentOf(s, EventTypes) |-> ws[s].sent[m]]
C9_NoEventAfterLeave ==
    [][\A s \in Sessions :
        (Unbound(s) /\ Unbound(s)' /\ SentOf(s, {"left"}) # {})
            => Events(s)' = Events(s)]_vars

\* C10 (the part a state shows): a session is sent the `left` event of a
\* Member, its own or a peer's, exactly once: never a second time.
C10_LeftExactlyOnce ==
    \A s \in Sessions :
        \A m \in SentOf(s, {"left"}) :
            m.userId # Undefined => Copies(s, m) <= 1

\* C11: whenever a session is sent a `left` event with userId X, Member
\* record X does not exist in the store at that moment.
C11_LeftAfterDelete ==
    [][\A s \in Sessions : \A m \in DOMAIN generated :
        Copies(s, Left(m))' > Copies(s, Left(m))
            => \A c \in Codes : <<c, m>> \notin DOMAIN members']_vars

\* C12: the commit of a createRoom leaves the new room's info record, exactly
\* one Member record in that room (lost = false) and exactly one Location
\* under it, with the input coordinates; when createRoom returns, the session
\* is bound to that room and Member and has been sent one `created` message
\* carrying them.
C12_CreatePostcondition ==
    [][\A s \in Sessions, c \in Codes, m \in DOMAIN generated, pt \in Points :
        LET t == task[s]["create"] IN
        (t.room = c /\ t.mid = m /\ t.pt = pt) =>
            /\ (t.pc = "c_commit" /\ task'[s]["create"].pc = "c_bind")
                => /\ c \in DOMAIN info'
                   /\ MembersOf(c)' = {m}
                   /\ ~members'[<<c, m>>].lost
                   /\ Cardinality(LocationsOf(c, m)') = 1
                   /\ \A l \in LocationsOf(c, m)' : <<l.lat, l.lng>> = pt
            /\ (t.pc = "c_bind" /\ task'[s]["create"].pc = "idle")
                => /\ rm'[s].room = c
                   /\ rm'[s].id = m
                   /\ Copies(s, Created(c, m))' = 1]_vars

\* C13: a joinRoom whose Room.get finds no info record for the roomId is
\* rejected with 'Room does not exist'; it creates no Member and no Location,
\* starts no subscription and leaves room and id of the session as they were
\* (unset on an unbound session).
C13_JoinMissingRoom ==
    [][\A s \in Sessions :
        LET t == task[s]["join"] IN
        (t.pc = "j_get" /\ t.room \notin DOMAIN info /\ task'[s]["join"] # t)
            => /\ task'[s]["join"] = Rejected("join", RoomNotFound)
               /\ members' = members
               /\ locations' = locations
               /\ listeners' = listeners
               /\ rm'[s] = rm[s]
               /\ Unbound(s) => Unbound(s)']_vars
\* A join of an unbound session was rejected by Room.get before any room existed.
C13_Witness ==
    \E s \in Sessions :
        /\ task[s]["join"] = Rejected("join", RoomNotFound)
        /\ generated = <<>>
        /\ info = <<>>
        /\ Unbound(s)

\* C14: when the transaction of a joinRoom fails (the info record is gone when
\* the callback reads it, or the commit is rejected for good), the session's
\* room and id are unset, it has no subscription, and no Member record exists
\* on its behalf.
C14_JoinFailureLeavesUnbound ==
    [][\A s \in Sessions :
        (/\ task[s]["join"].pc \in {"j_txn", "j_commit"}
         /\ task'[s]["join"].pc = "idle"
         /\ task'[s]["join"].err # "")
            => /\ rm'[s].room = Undefined
               /\ rm'[s].id = Undefined
               /\ rm'[s].roomUnsubscribe = Undefined
               /\ MembersBy(s)' = {}]_vars

\* C15: when a leaveRoom of a bound session fails, the session's Member
\* record and its Locations still exist: nothing of that leave is committed.
LeavePcs == {"l_txn", "l_locs", "l_batch", "l_count", "l_commit"}
C15_LeaveFailureCommitsNothing ==
    [][\A s \in Sessions, c \in Codes, m \in DOMAIN generated :
        (/\ rm[s].room = c
         /\ rm[s].id = m
         /\ task[s]["leave"].pc \in LeavePcs
         /\ task'[s]["leave"].pc = "idle"
         /\ task'[s]["leave"].err # "")
            => /\ <<c, m>> \in DOMAIN members'
               /\ LocationsOf(c, m)' # {}
               /\ info' = info]_vars

\* C16: leaveRoom invocations of one session that overlap do not fail on the
\* binding the other one has cleared, and the session is sent one `left` for
\* itself: no second `left` for its Member id and none without a userId.
C16_LeaveIdempotent ==
    \A s \in Sessions :
        /\ \A k \in LeaveKinds : task[s][k].err \notin {TypeError, NotInRoom}
        /\ Copies(s, Left(Undefined)) = 0
        /\ \A m \in {i \in DOMAIN generated : generated[i] = s} :
            Copies(s, Left(m)) <= 1

\* C17 (as the final result): when the connection of a session has closed,
\* its heartbeat callback has come to its end and no call of the session is
\* in flight, no Member record and no Location of the session remain, and no
\* info record remains of a room without Members.
C17_CloseEvicts ==
    \A s \in Sessions :
        (/\ ws[s].closed = PeerClosed
         /\ ~rm[s].heartbeatTimeout
         /\ \A k \in Kinds : task[s][k].pc \in {"idle", "h_failed"})
            => /\ MembersBy(s) = {}
               /\ \A l \in locations : generated[l.member] # s
               /\ \A c \in DOMAIN info : MembersOf(c) # {}

\* C18 (as the final result of the handler): when the message handler has
\* caught an error and the leaveRoom of its catch block has ended, the
\* connection is closed with the message of that error.
C18_ErrorCloses ==
    \A s \in Sessions :
        (ws[s].caught # "" /\ task[s]["leave"].pc = "idle")
            => ws[s].closed = ws[s].caught

\* No roster snapshot is pending for session s: each of its active roster
\* listeners has delivered the current view of its room.
CaughtUp(s) ==
    \A h \in DOMAIN listeners :
        LET l == listeners[h] IN
        (l.owner = s /\ l.kind = "roster" /\ l.active)
            => (l.since # 0 /\ l.seen = RosterView(l.room))

\* C19: a bound session without a call in flight, whose room has an info
\* record and for which no roster snapshot is pending, has been sent a
\* `roomUpdate` with the room id and the current proposal map.
C19_RoomUpdateDelivered ==
    \A s \in Sessions :
        (Bound(s) /\ SessionIdle(s) /\ rm[s].room \in DOMAIN info /\ CaughtUp(s))
            => Copies(s, RoomUpdate(rm[s].room, info[rm[s].room].proposals)) >= 1

\* C20: the commits of a proposal round trip. P's propose on a map without
\* entry for P leaves {location: p, acceptedBy: []}; M's accept of that entry
\* leaves acceptedBy = [M]; M's revoke then leaves the entry as it was right
\* after the propose; P's clear leaves no entry for P.
C20_ProposalRoundTrip ==
    [][\A s \in Sessions, c \in DOMAIN info :
        LET t == task[s]["negotiate"]
            P == info[c].proposals
        IN
        (t.pc = "n_commit" /\ t.room = c /\ task'[s]["negotiate"].pc = "idle" /\ c \in DOMAIN info')
            => LET Q == info'[c].proposals IN
               /\ (t.op = "propose" /\ t.mid \notin DOMAIN P)
                    => (t.mid \in DOMAIN Q /\ Q[t.mid] = [location |-> t.pt, acceptedBy |-> <<>>])
               /\ (t.op = "accept" /\ t.arg \in DOMAIN P /\ "location" \in DOMAIN P[t.arg]
                                   /\ P[t.arg].acceptedBy = <<>>)
                    => Q[t.arg] = [location |-> P[t.arg].location, acceptedBy |-> <<t.mid>>]
               /\ (t.op = "revoke" /\ t.arg \in DOMAIN P /\ "location" \in DOMAIN P[t.arg]
                                   /\ P[t.arg].acceptedBy = <<t.mid>>)
                    => Q[t.arg] = [location |-> P[t.arg].location, acceptedBy |-> <<>>]
               /\ (t.op = "clear") => t.mid \notin DOMAIN Q]_vars
\* P has proposed and M has accepted: P's entry holds P's location and M.
C20_Witness ==
    \E s \in Sessions \ {1}, pt \in Points :
        /\ task[1]["negotiate"].pc = "idle" /\ task[1]["negotiate"].op = "propose"
        /\ task[s]["negotiate"].pc = "idle" /\ task[s]["negotiate"].op = "accept"
        /\ Bound(1) /\ Bound(s)
        /\ rm[1].room \in DOMAIN info
        /\ rm[1].id \in DOMAIN info[rm[1].room].proposals
        /\ info[rm[1].room].proposals[rm[1].id] = [location |-> pt, acceptedBy |-> <<rm[s].id>>]

\* The elements of the array a.
Range(a) == {a[i] : i \in DOMAIN a}
\* The commit of a negotiator call of session s on the info record of room c.
NegotiateCommitted(s, c) ==
    /\ task[s]["negotiate"].pc = "n_commit"
    /\ task[s]["negotiate"].room = c
    /\ task'[s]["negotiate"].pc = "idle"
    /\ c \in DOMAIN info'

\* C21: the commit of a proposeMeetingPoint(p) of member P leaves the entry
\* {location: p, acceptedBy: []} at key P of the proposal map, whatever the
\* map held before: P's previous entry and its acceptances are replaced.
C21_ProposeReplaces ==
    [][\A s \in Sessions, c \in DOMAIN info :
        LET t == task[s]["negotiate"] IN
        (NegotiateCommitted(s, c) /\ t.op = "propose")
            => /\ t.mid \in DOMAIN info'[c].proposals
               /\ info'[c].proposals[t.mid] = [location |-> t.pt, acceptedBy |-> <<>>]]_vars
\* M's accept of P has changed the map, P has proposed (1, 1) after it: P's
\* entry holds the new location and no acceptance.
C21_Witness ==
    \E s \in Sessions \ {1} :
        /\ task[1]["negotiate"].pc = "idle" /\ task[1]["negotiate"].op = "propose"
        /\ task[s]["negotiate"].pc = "idle" /\ task[s]["negotiate"].op = "accept"
        /\ Bound(1)
        /\ task[s]["negotiate"].arg = rm[1].id
        /\ ~task[s]["negotiate"].kept
        /\ rm[1].room \in DOMAIN info
        /\ rm[1].id \in DOMAIN info[rm[1].room].proposals
        /\ info[rm[1].room].proposals[rm[1].id] = [location |-> <<Num(1), Num(1)>>, acceptedBy |-> <<>>]

\* C22: no acceptedBy array of a proposal map holds an id twice, and the
\* commit of an acceptMeetingPoint(P) of a member whose id is in P's
\* acceptedBy leaves the info record as it is.
C22_NoDuplicates ==
    \A c \in DOMAIN info : \A id \in DOMAIN info[c].proposals :
        \A i, j \in DOMAIN AcceptedBy(info[c].proposals, id) :
            AcceptedBy(info[c].proposals, id)[i] = AcceptedBy(info[c].proposals, id)[j] => i = j
C22_AcceptAgain ==
    \A s \in Sessions, c \in DOMAIN info :
        LET t == task[s]["negotiate"] IN
        (/\ NegotiateCommitted(s, c)
         /\ t.op = "accept"
         /\ t.mid \in Range(AcceptedBy(info[c].proposals, t.arg)))
            => info' = info
C22_AcceptIdempotent == [](C22_NoDuplicates) /\ [][C22_AcceptAgain]_vars
\* M has accepted P's proposal when its id was in the array: the array holds
\* M once.
C22_Witness ==
    \E s \in Sessions \ {1}, pt \in Points :
        /\ task[s]["negotiate"].pc = "idle" /\ task[s]["negotiate"].op = "accept"
        /\ task[s]["negotiate"].kept
        /\ Bound(1) /\ Bound(s)
        /\ task[s]["negotiate"].arg = rm[1].id
        /\ rm[1].room \in DOMAIN info
        /\ rm[1].id \in DOMAIN info[rm[1].room].proposals
        /\ info[rm[1].room].proposals[rm[1].id] = [location |-> pt, acceptedBy |-> <<rm[s].id>>]

\* C23: the commit of an acceptMeetingPoint or revokeMeetingPointAcceptance
\* that names a proposer without entry in the proposal map leaves the
\* proposal map as it is.
C23_MissingProposalNoOp ==
    [][\A s \in Sessions, c \in DOMAIN info :
        LET t == task[s]["negotiate"] IN
        (/\ NegotiateCommitted(s, c)
         /\ t.op \in {"accept", "revoke"}
         /\ t.arg \notin DOMAIN info[c].proposals)
            => info'[c].proposals = info[c].proposals]_vars

C27_UpdateAddsOne ==
    [][\A s \in Sessions, c \in Codes, m \in DOMAIN generated :
        LET t == task[s]["update"] IN
        (t.pc = "u_set" /\ t.room = c /\ t.mid = m /\ task'[s]["update"].pc = "idle")
            => /\ members' = members
               /\ info' = info
               /\ locations \subseteq locations'
               /\ locations' \ locations = {LocationDoc(c, m, t.pt, clock)}
               /\ Cardinality(LocationsOf(c, m)') = Cardinality(LocationsOf(c, m)) + 1]_vars
\* A bound session has reported (1, 1): its Member has the Location of its
\* createRoom and the new one.
C27_Witness ==
    \E s \in Sessions :
        /\ Bound(s)
        /\ task[s]["update"].pc = "idle"
        /\ <<rm[s].room, rm[s].id>> \in DOMAIN members
        /\ Cardinality(LocationsOf(rm[s].room, rm[s].id)) = 2
        /\ \E l \in LocationsOf(rm[s].room, rm[s].id) : <<l.lat, l.lng>> = <<Num(1), Num(1)>>

\* C28: a session has never two pending heartbeat timers, and a checkAlive
\* sends one `ping` and leaves one timer pending, the one the session holds.
C28_AtMostOneTimer ==
    \A s \in Sessions : rm[s].timers <= 1 /\ Copies(s, Ping) >= 1
C28_CheckAliveStep ==
    \A s \in Sessions :
        Copies(s, Ping)' # Copies(s, Ping)
            => /\ Copies(s, Ping)' = Copies(s, Ping) + 1
               /\ rm'[s].timers = 1
               /\ rm'[s].heartbeatTimeout
C28_SingleTimer == [](C28_AtMostOneTimer) /\ [][C28_CheckAliveStep]_vars
\* A bound session has answered a ping while its timer was pending: it has
\* been sent the ping of the connection's opening and a second one, and has
\* one timer pending.
C28_Witness ==
    \E s \in Sessions :
        /\ Bound(s)
        /\ Open(s)
        /\ Copies(s, Ping) = 2
        /\ rm[s].heartbeatTimeout
        /\ rm[s].timers = 1

\* C29: createRoom, joinRoom and updateLocation go on with their coordinates
\* exactly when both are numbers with -90 <= lat <= 90 and -180 <= lng <= 180,
\* and reject them with the error of a check the coordinates fail.
InRange(x, limit) == x.type = "number" /\ -limit <= x.v /\ x.v <= limit
ValidCoordinates(pt) == InRange(pt[1], MaxLatitude) /\ InRange(pt[2], MaxLongitude)
Missing(x) == x.type \in {"undefined", "null"}
CoordinateErrors == {LatitudeRequired, LongitudeRequired, LatitudeInvalid, LongitudeInvalid}
C29_ValidationIff ==
    \A s \in Sessions, k \in {"create", "join", "update"} :
        LET t == task[s][k] IN
        /\ t.pc # "idle" => ValidCoordinates(t.pt)
        /\ (t.pc = "idle" /\ t.err \in CoordinateErrors) =>
            /\ ~ValidCoordinates(t.pt)
            /\ t.err = LatitudeRequired => Missing(t.pt[1])
            /\ t.err = LongitudeRequired => Missing(t.pt[2])
            /\ t.err = LatitudeInvalid => (~Missing(t.pt[1]) /\ ~InRange(t.pt[1], MaxLatitude))
            /\ t.err = LongitudeInvalid => (~Missing(t.pt[2]) /\ ~InRange(t.pt[2], MaxLongitude))

\* C30: a createRoom, joinRoom, updateLocation or proposeMeetingPoint that is
\* rejected by a precondition check changes no record of the store, no
\* binding, no subscription, and sends nothing.
PreconditionErrors == CoordinateErrors \cup {UserInRoom, RoomIdRequired, InvalidGeoPoint}
C30_RejectionFrame ==
    [][\A s \in Sessions, k \in {"create", "join", "update", "negotiate"} :
        (/\ calls' = calls + 1
         /\ task[s][k].pc = "idle"
         /\ task'[s][k].pc = "idle"
         /\ task'[s][k].err \in PreconditionErrors)
            => /\ info' = info
               /\ members' = members
               /\ locations' = locations
               /\ rm' = rm
               /\ listeners' = listeners
               /\ ws' = ws]_vars
\* A bound session's createRoom was rejected because it is in a room: the
\* room, its Member and Location are there, its subscription is there, and
\* the session has been sent what it was sent before, `ping` and `created`.
C30_Witness ==
    \E s \in Sessions :
        /\ Bound(s)
        /\ task[s]["create"].pc = "idle" /\ task[s]["create"].err = UserInRoom
        /\ <<rm[s].room, rm[s].id>> \in DOMAIN members
        /\ Cardinality(locations) = 1
        /\ rm[s].roomUnsubscribe # Undefined
        /\ DOMAIN ws[s].sent = {Ping, Created(rm[s].room, rm[s].id)}

\* No location snapshot is pending for session s: each of its active location
\* listeners has delivered the newest Location of its peer.
LocationsCaughtUp(s) ==
    \A h \in DOMAIN listeners :
        LET l == listeners[h] IN
        (l.owner = s /\ l.kind = "location" /\ l.active)
            => (l.since # 0 /\ l.seen.top = TopTime(l.room, l.peer))
\* The Members of the room of session s other than its own.
Peers(s) == MembersOf(rm[s].room) \ {rm[s].id}
\* The newest Location of Member m of room c.
Newest(c, m) == CHOOSE d \in LocationsOf(c, m) : d.time = TopTime(c, m)

\* C25: when no call is in flight, a bound session without a pending
\* snapshot has been sent, for every other Member of its room, a `location`
\* event with that Member's most recent Location: the joiner for the Members
\* it found, the Members it found for the joiner.
C25_LocationsExchanged ==
    \A s \in Sessions :
        (Bound(s) /\ AllIdle /\ CaughtUp(s) /\ LocationsCaughtUp(s))
            => \A m \in Peers(s) :
                /\ LocationsOf(rm[s].room, m) # {}
                /\ Copies(s, LocationMsg(m, Newest(rm[s].room, m))) >= 1

\* C26: when no call is in flight, a bound session without a pending
\* roster snapshot has been sent exactly one `memberUpdate` for every other
\* Member of its room, with the Member's id, its joinedAt and lost = false.
C26_MemberUpdatesExchanged ==
    \A s \in Sessions :
        (Bound(s) /\ AllIdle /\ CaughtUp(s))
            => \A m \in Peers(s) :
                Copies(s, [type |-> "memberUpdate", userId |-> m,
                           joinedAt |-> members[<<rm[s].room, m>>].joinedAt,
                           lost |-> FALSE]) = 1

\* C31: a createRoom reads the info record of at most 10 codes, one per turn
\* of its loop; after the tenth code with an info record the call is rejected
\* with 'Failed to create room after 10 attempts': it has written no info
\* record, no Member and no Location, the session is unbound and without
\* subscription, and the call has ended (no further turn, no new call).
\* A step of the call is one that changes its count of codes or its position.
C31_AtMostTenCodes ==
    \A s \in Sessions : task[s]["create"].attempts <= MaxAttempts
C31_ExhaustedStep ==
    \A s \in Sessions :
        LET t == task[s]["create"] IN
        (/\ t.pc = "c_txn"
         /\ ~t.success
         /\ (task'[s]["create"].attempts # t.attempts \/ task'[s]["create"].pc # t.pc))
            => /\ t.attempts < MaxAttempts
                    => /\ task'[s]["create"].attempts = t.attempts + 1
                       /\ task'[s]["create"].room \in Codes
                       /\ task'[s]["create"].success
                            <=> task'[s]["create"].room \notin DOMAIN info
               /\ t.attempts = MaxAttempts
                    => /\ task'[s]["create"] = Rejected("create", CreateFailed)
                       /\ calls' = calls
               /\ info' = info
               /\ members' = members
               /\ locations' = locations
               /\ listeners' = listeners
               /\ ws' = ws
               /\ rm' = rm
               /\ Unbound(s)'
C31_CreateGivesUp == [](C31_AtMostTenCodes) /\ [][C31_ExhaustedStep]_vars
\* A createRoom has been rejected after ten codes while every code had an
\* info record: the session is unbound, has no Member and no subscription.
C31_Witness ==
    \E s \in Sessions :
        /\ task[s]["create"] = Rejected("create", CreateFailed)
        /\ DOMAIN info = Codes
        /\ Unbound(s)
        /\ \A p \in DOMAIN members : generated[p[2]] # s
        /\ \A h \in DOMAIN listeners : listeners[h].owner # s

\* The listeners of session s that are subscribed.
ActiveListeners(s) ==
    {h \in DOMAIN listeners : listeners[h].owner = s /\ listeners[h].active}
\* A step of the leaveRoom of kind k of session s deletes a record.
LeaveDeletes(s, k) ==
    /\ task[s][k].pc \in {"l_batch", "l_commit"}
    /\ task'[s][k] # task[s][k]
    /\ (locations' # locations \/ members' # members \/ info' # info)

\* C32: when a leaveRoom of a session deletes a record (a batch of Locations,
\* the Member, the info record), no roster subscription and no location
\* subscription of that session is active: all were cancelled before.
C32_CancelledBeforeDelete ==
    [][\A s \in Sessions, k \in LeaveKinds :
        LeaveDeletes(s, k) => ActiveListeners(s) = {}]_vars

\* The heartbeat timer of session s fires: its callback starts.
ExpiryFires(s) ==
    /\ task[s]["hb"].pc = "idle"
    /\ rm[s].heartbeatTimeout
    /\ ~rm'[s].heartbeatTimeout
    /\ (task'[s]["hb"].pc # "idle" \/ (ws'[s].terminated /\ ~ws[s].terminated))

\* C33: while a leaveRoom of a session is under way, and when its connection
\* has closed, the session has no heartbeat timer pending, and no heartbeat
\* timer of the session fires then.
C33_NoTimerPending ==
    \A s \in Sessions :
        (task[s]["leave"].pc # "idle" \/ ws[s].closed # "") => ~rm[s].heartbeatTimeout
C33_NoExpiry ==
    \A s \in Sessions :
        ExpiryFires(s) => (task[s]["leave"].pc = "idle" /\ ws[s].closed = "")
C33_TimerCancelled == [](C33_NoTimerPending) /\ [][C33_NoExpiry]_vars

\* The active listeners of session s of a kind, and the peers of its active
\* location listeners.
ActiveOf(s, kind) == {h \in ActiveListeners(s) : listeners[h].kind = kind}
SubscribedPeers(s) == {listeners[h].peer : h \in ActiveOf(s, "location")}

\* C34: a bound session without a call in flight has exactly one active
\* roster subscription; the peers it has an active location subscription for
\* are the peers whose `added` it has handled and whose `removed` it has
\* not, and it has one location subscription for each of them.
C34_SubscriptionsInLockstep ==
    \A s \in Sessions :
        (Bound(s) /\ SessionIdle(s))
            => /\ Cardinality(ActiveOf(s, "roster")) = 1
               /\ SubscribedPeers(s) = DOMAIN rm[s].otherMembersData
               /\ Cardinality(ActiveOf(s, "location")) = Cardinality(SubscribedPeers(s))

\* C35: a session that is unbound owns no active roster subscription and no
\* active location subscription.
C35_UnboundOwnsNoSubscription ==
    \A s \in Sessions : Unbound(s) => ActiveListeners(s) = {}

\* C36: a session has no active location subscription for its own Member id,
\* and it is sent no `memberUpdate` and no `location` for its own Member id,
\* and no `left` for it by a roster snapshot (a step of no call). Member ids
\* are the ids generated by collection.doc(): `info` is none of them.
C36_NoSelfSubscription ==
    \A s \in Sessions :
        /\ rm[s].id \notin SubscribedPeers(s)
        /\ SubscribedPeers(s) \subseteq DOMAIN generated
C36_NoSelfEvent ==
    \A s \in Sessions : \A msg \in DOMAIN ws'[s].sent :
        (/\ Copies(s, msg)' > Copies(s, msg)
         /\ \/ msg.type \in {"memberUpdate", "location"}
            \/ msg.type = "left" /\ task' = task)
            => /\ msg.userId # rm[s].id
               /\ msg.userId \in DOMAIN generated
C36_SelfAndInfoFiltered == [](C36_NoSelfSubscription) /\ [][C36_NoSelfEvent]_vars

\* The number of times message m has been sent to session s after the step.
CopiesNext(s, m) == IF m \in DOMAIN ws'[s].sent THEN ws'[s].sent[m] ELSE 0

\* C37: when a roster snapshot shows a session a peer P it was shown before,
\* the session is sent one `memberUpdate` for P, with P's fields, if P's
\* `lost` differs from the value the snapshot before showed, and no
\* `memberUpdate` for P if it does not.
C37_ModifiedStep ==
    \A h \in DOMAIN listeners :
        LET l == listeners[h]
            s == l.owner
        IN
        (l.kind = "roster" /\ l.active /\ listeners'[h].seen # l.seen)
            => \A P \in (DOMAIN l.seen.members \cap DOMAIN listeners'[h].seen.members)
                            \ {rm[s].id} :
                /\ l.seen.members[P].lost # listeners'[h].seen.members[P].lost
                    => CopiesNext(s, MemberUpdate(P, listeners'[h].seen.members[P]))
                            = Copies(s, MemberUpdate(P, listeners'[h].seen.members[P])) + 1
                /\ l.seen.members[P].lost = listeners'[h].seen.members[P].lost
                    => \A msg \in DOMAIN ws'[s].sent :
                            (msg.type = "memberUpdate" /\ msg.userId = P)
                                => CopiesNext(s, msg) = Copies(s, msg)
C37_MemberUpdateIffLostChanged == [][C37_ModifiedStep]_vars
\* A bound session has been shown a peer as added, as marked lost and, after
\* that, with another field updated: it has been sent the memberUpdate of
\* the `added` and the one of the mark, and none with the peer's fields of now.
C37_Witness ==
    \E s \in Sessions :
        /\ Bound(s)
        /\ CaughtUp(s)
        /\ \E P \in Peers(s) :
            LET data == members[<<rm[s].room, P>>] IN
            /\ data.lost
            /\ Copies(s, MemberUpdate(P, data)) = 0
            /\ \E j \in 1..MaxModifyClock :
                /\ j # data.joinedAt
                /\ Copies(s, MemberUpdate(P, [joinedAt |-> j, lost |-> FALSE])) = 1
                /\ Copies(s, MemberUpdate(P, [joinedAt |-> j, lost |-> TRUE])) = 1

\* C38: when the callback of a heartbeat expiry has come to its end with a
\* failed store operation (the info record or the Member is gone, the
\* transaction was rejected), the connection is terminated; and a session is
\* never sent an error message.
C38_ExpiryAlwaysTerminates ==
    \A s \in Sessions :
        /\ SentOf(s, {"error"}) = {}
        /\ task[s]["hb"].pc = "h_failed" => ws[s].terminated

\* A #deleteLocations of session s is in its loop.
Deleting(s) == task[s]["leave"].pc \in {"d_get", "d_batch"}

\* C39: with no other writer of the Member's Locations, a #deleteLocations
\* with a batch size from 1 to 500 comes to its end, every batch it commits
\* deletes at least one Location, and when it returns the Member has no
\* Location; with any other batch size it is rejected at once and no
\* Location is deleted.
C39_Step ==
    \A s \in Sessions, c \in Codes, m \in DOMAIN generated :
        LET t == task[s]["leave"] IN
        (rm[s].room = c /\ rm[s].id = m /\ task'[s]["leave"] # t) =>
            /\ (t.pc = "idle" /\ task'[s]["leave"].op = "deleteLocations") =>
                /\ locations' = locations
                /\ IF task'[s]["leave"].arg \in MinBatchSize..MaxBatchSize
                   THEN Deleting(s)'
                   ELSE ~Deleting(s)' /\ task'[s]["leave"].err = BatchSizeError
            /\ t.pc = "d_batch" =>
                /\ locations' \subseteq locations
                /\ Cardinality(locations') < Cardinality(locations)
            /\ (Deleting(s) /\ ~Deleting(s)') =>
                /\ task'[s]["leave"].err = ""
                /\ LocationsOf(c, m)' = {}
C39_Ends == \A s \in Sessions : Deleting(s) ~> ~Deleting(s)
C39_DeleteLocationsEmpties == [][C39_Step]_vars /\ C39_Ends
\* A #deleteLocations with batch size 2 has returned after three reads, two
\* of them with a full batch: the four Locations of the Member are deleted.
C39_Witness ==
    \E s \in Sessions :
        /\ Bound(s)
        /\ task[s]["leave"].pc = "idle"
        /\ task[s]["leave"].op = "deleteLocations"
        /\ task[s]["leave"].err = ""
        /\ task[s]["leave"].arg = 2
        /\ task[s]["leave"].tries = 3
        /\ clock = 5
        /\ locations = {}

\* C40: every key of the proposal map of a room, and every id in an
\* acceptedBy array of it, is the id of a Member record of that room.
C40_ProposalsOfMembers ==
    \A c \in DOMAIN info :
        \A id \in DOMAIN info[c].proposals :
            /\ id \in MembersOf(c)
            /\ Range(AcceptedBy(info[c].proposals, id)) \subseteq MembersOf(c)

====
